---- MODULE Spec2Model ----
(***************************************************************************)
(* Publisher Report Generator (src/app.py).                                *)
(*                                                                         *)
(* One run of the Streamlit script over one uploaded workbook: read every  *)
(* sheet, keep the sheets with a 'Publisher' column, collect the distinct  *)
(* publishers, write one multi-sheet report per publisher into a dict      *)
(* keyed by output filename, and zip the dict for download.                *)
(*                                                                         *)
(* Text is a sequence of one-character strings, so that the filename       *)
(* cleaning can be computed character by character.  A blank cell is the   *)
(* value NaN, as pandas reads it.                                          *)
(***************************************************************************)
EXTENDS Integers, Sequences, FiniteSets, TLC

VARIABLES
    uploaded_file,    \* the upload: [name, sheets]; each sheet [name, columns, rows]
    pc,               \* position of the script
    all_sheets_dict,  \* pd.read_excel(..., sheet_name=None)
    valid_sheets,     \* sheets with a 'Publisher' column, in sheet order
    all_publishers,   \* pd.concat(...).unique()
    report_date,      \* datetime.now() taken once before the publisher loop
    i,                \* index of the publisher being processed
    j,                \* index of the valid sheet being processed
    output_filename,  \* filename of the report being built
    publisher_data,   \* the filtered sheet of the current publisher
    writer,           \* sheets written to the current report so far
    publisher_files,  \* dict filename -> report, in insertion order
    reports_data,     \* the value process_excel_and_create_reports returned
    archive,          \* entries of the zip file, <<>> while none is built
    download,         \* the download button is shown
    message           \* the last warning / error the run ended with

vars == <<uploaded_file, pc, all_sheets_dict, valid_sheets, all_publishers,
          report_date, i, j, output_filename, publisher_data, writer,
          publisher_files, reports_data, archive, download, message>>

----------------------------------------------------------------------------
(* Bounds of the model *)

\* at most MaxSheets sheets in the uploaded workbook
MaxSheets == 2
\* at most MaxRows data rows in the whole workbook
MaxRows == 3
\* publisher names of the filename-cleaning runs have at most MaxLen characters
MaxLen == 4

----------------------------------------------------------------------------
(* Cell values and text *)

\* a blank cell, read by pandas as NaN
NaN == <<"NaN">>

\* characters for which str.isalnum() is true, among those the model uses
AlnumChars == {"A", "B", "a", "n", "1"}

isalnum(c) == c \in AlnumChars

\* str(publisher): NaN prints as "nan", text is itself
str(publisher) == IF publisher = NaN THEN <<"n", "a", "n">> ELSE publisher

\* characters str.rstrip() removes
Whitespace == {" ", "\t", "\n"}

RECURSIVE rstrip(_)
rstrip(s) ==
    IF s = <<>> THEN <<>>
    ELSE IF s[Len(s)] \in Whitespace THEN rstrip(SubSeq(s, 1, Len(s) - 1))
    ELSE s

\* the cleaning with every other character replaced by '_' instead of dropped
safe_publisher_name_replacing(publisher) ==
    rstrip([k \in 1..Len(str(publisher)) |->
              IF isalnum(str(publisher)[k]) \/ str(publisher)[k] \in {" ", "_", "-"}
              THEN str(publisher)[k] ELSE "_"])

\* "".join(c for c in str(publisher) if c.isalnum() or c in (' ','_','-')).rstrip()
safe_publisher_name(publisher) ==
    rstrip(SelectSeq(str(publisher),
                     LAMBDA c : isalnum(c) \/ c \in {" ", "_", "-"}))

\* original_filename.replace('.xlsx', ''); the extension is one token of the name
ReplaceXlsx(name) == SelectSeq(name, LAMBDA c : c # ".xlsx")

\* f"{safe_publisher_name}_{original_filename.replace('.xlsx','')}_{report_date}.xlsx"
OutputFilename(publisher, original_filename, date) ==
    safe_publisher_name(publisher) \o <<"_">> \o ReplaceXlsx(original_filename)
        \o <<"_">> \o date \o <<".xlsx">>

----------------------------------------------------------------------------
(* pandas *)

\* 'Publisher' in df.columns
HasPublisherColumn(df) ==
    \E k \in 1..Len(df.columns) : df.columns[k] = "Publisher"

\* position of the 'Publisher' column of a sheet that has one
PublisherIndex(df) ==
    CHOOSE k \in 1..Len(df.columns) : df.columns[k] = "Publisher"

\* df['Publisher']
PublisherSeries(df) ==
    [k \in 1..Len(df.rows) |-> df.rows[k][PublisherIndex(df)]]

\* every sheet kept, whatever its columns
ValidSheetsAll(sheets) == sheets

\* valid_sheets: the sheets with a 'Publisher' column, in sheet order
ValidSheets(sheets) == SelectSeq(sheets, HasPublisherColumn)

\* pd.concat([df['Publisher'] for df in valid_sheets.values()])
RECURSIVE ConcatPublishers(_)
ConcatPublishers(sheets) ==
    IF sheets = <<>> THEN <<>>
    ELSE PublisherSeries(Head(sheets)) \o ConcatPublishers(Tail(sheets))

\* Series.unique(): order of first appearance, NaN kept (once)
RECURSIVE unique(_)
unique(s) ==
    IF s = <<>> THEN <<>>
    ELSE <<Head(s)>> \o unique(SelectSeq(Tail(s), LAMBDA x : x # Head(s)))

\* one cell of  original_df['Publisher'] == publisher : NaN equals nothing
CellEquals(cell, publisher) ==
    /\ cell # NaN
    /\ publisher # NaN
    /\ cell = publisher

\* the sheet not filtered at all
FilterPublisherNone(df, publisher) == df

\* original_df[original_df['Publisher'] == publisher]
FilterPublisher(df, publisher) ==
    [df EXCEPT !.rows =
        SelectSeq(df.rows,
                  LAMBDA r : CellEquals(r[PublisherIndex(df)], publisher))]

\* a dict that keeps the first value stored under a key
DictSetFirstWins(d, key, value) ==
    IF \E k \in 1..Len(d) : d[k].name = key
    THEN d
    ELSE Append(d, [name |-> key, content |-> value])

\* publisher_files[output_filename] = output.getvalue()
DictSet(d, key, value) ==
    IF \E k \in 1..Len(d) : d[k].name = key
    THEN [k \in 1..Len(d) |->
            IF d[k].name = key THEN [name |-> key, content |-> value] ELSE d[k]]
    ELSE Append(d, [name |-> key, content |-> value])

----------------------------------------------------------------------------
(* Uploaded workbooks *)

\* names of the sheets of a workbook, by position
SheetNames == <<"CRM", "Adjust", "Notes", "Extra">>

\* the upload's file name
UploadName == <<"r", ".xlsx">>

\* what datetime.now().strftime("%Y%m%d_%H%M%S") may give
Clock == {<<"20260101_000000">>}

\* values of the first column of a row: blank, two names that clean to the same
\* filename, and a third name
Vals == {NaN, <<"A">>, <<"A", "!">>, <<"B">>}

\* columns of a sheet with, and of a sheet without, the identifier column
QualifyingColumns == <<"Publisher", "Amount">>
OtherColumns == <<"Name", "Amount">>

\* where the sheets end in the sequence of all rows of the workbook
Cuts(n, m) ==
    {c \in [1..n -> 0..m] :
        /\ \A k \in 1..n : k > 1 => c[k - 1] <= c[k]
        /\ c[n] = m}

BuildSheets(n, flags, cells, cuts) ==
    [k \in 1..n |->
        [name    |-> SheetNames[k],
         columns |-> IF flags[k] THEN QualifyingColumns ELSE OtherColumns,
         rows    |-> LET first == IF k = 1 THEN 1 ELSE cuts[k - 1] + 1
                     IN  [r \in 1..(cuts[k] - first + 1) |->
                            <<cells[first + r - 1], 10>>]]]

\* characters of the publisher names of the filename-cleaning runs
NameChars == {"A", "1", " ", "_", "-", "!"}

\* publisher names of the filename-cleaning runs: every text up to MaxLen
Names == UNION { [1..n -> NameChars] : n \in 1..MaxLen }

\* the one-sheet workbook with one row, of publisher t
NameSheets(t) ==
    << [name    |-> SheetNames[1],
        columns |-> QualifyingColumns,
        rows    |-> << <<t, 10>> >>] >>

----------------------------------------------------------------------------
(* The script *)

Start(sheets) ==
    /\ uploaded_file = [name |-> UploadName, sheets |-> sheets]
    /\ pc = "Idle"
    /\ all_sheets_dict = <<>>
    /\ valid_sheets = <<>>
    /\ all_publishers = <<>>
    /\ report_date = <<>>
    /\ i = 0
    /\ j = 0
    /\ output_filename = <<>>
    /\ publisher_data = <<>>
    /\ writer = <<>>
    /\ publisher_files = <<>>
    /\ reports_data = <<>>
    /\ archive = <<>>
    /\ download = FALSE
    /\ message = "none"

\* every workbook of at most MaxSheets sheets and MaxRows rows in all
Init ==
    \/ Start(<<>>)
    \/ \E n \in 1..MaxSheets, m \in 0..MaxRows :
          \E flags \in [1..n -> BOOLEAN], cells \in [1..m -> Vals],
             cuts \in Cuts(n, m) :
             Start(BuildSheets(n, flags, cells, cuts))

NameInit == \E t \in Names : Start(NameSheets(t))

\* if uploaded_file is not None: ... process_excel_and_create_reports(...)
Upload ==
    /\ pc = "Idle"
    /\ pc' = "Loading"
    /\ UNCHANGED <<uploaded_file, all_sheets_dict, valid_sheets, all_publishers,
                   report_date, i, j, output_filename, publisher_data, writer,
                   publisher_files, reports_data, archive, download, message>>

\* all_sheets_dict = pd.read_excel(uploaded_file, sheet_name=None)
ReadExcel ==
    /\ pc = "Loading"
    /\ all_sheets_dict' = uploaded_file.sheets
    /\ pc' = "Validating"
    /\ UNCHANGED <<uploaded_file, valid_sheets, all_publishers, report_date, i, j,
                   output_filename, publisher_data, writer, publisher_files,
                   reports_data, archive, download, message>>

\* except Exception: st.error(...); return {}  -- then num_files == 0: st.error
ReadExcelError ==
    /\ pc = "Loading"
    /\ message' = "read_failed"
    /\ reports_data' = <<>>
    /\ pc' = "Failed"
    /\ UNCHANGED <<uploaded_file, all_sheets_dict, valid_sheets, all_publishers,
                   report_date, i, j, output_filename, publisher_data, writer,
                   publisher_files, archive, download>>

\* the sheet review without the halt on an empty valid_sheets
ReviewSheetsNoHalt ==
    /\ pc = "Validating"
    /\ valid_sheets' = ValidSheets(all_sheets_dict)
    /\ pc' = "Consolidating"
    /\ UNCHANGED <<uploaded_file, all_sheets_dict, all_publishers, report_date, i, j,
                   output_filename, publisher_data, writer, publisher_files,
                   reports_data, archive, download, message>>

\* the sheet review loop and  if not valid_sheets: return {}
ReviewSheets ==
    /\ pc = "Validating"
    /\ valid_sheets' = ValidSheets(all_sheets_dict)
    /\ IF valid_sheets' = <<>>
       THEN /\ message' = "no_publisher_column"
            /\ reports_data' = <<>>
            /\ pc' = "Failed"
       ELSE /\ pc' = "Consolidating"
            /\ UNCHANGED <<message, reports_data>>
    /\ UNCHANGED <<uploaded_file, all_sheets_dict, all_publishers, report_date, i, j,
                   output_filename, publisher_data, writer, publisher_files,
                   archive, download>>

\* all_publishers = pd.concat(...).unique(); if len(all_publishers) == 0: return {}
\* otherwise publisher_files = {}, report_date = now, enter the publisher loop
ConsolidatePublishers ==
    /\ pc = "Consolidating"
    /\ all_publishers' = unique(ConcatPublishers(valid_sheets))
    /\ IF Len(all_publishers') = 0
       THEN /\ message' = "empty_publishers"
            /\ reports_data' = <<>>
            /\ pc' = "Failed"
            /\ UNCHANGED <<publisher_files, report_date, i>>
       ELSE /\ publisher_files' = <<>>
            /\ report_date' \in Clock
            /\ i' = 1
            /\ pc' = "LoopHead"
            /\ UNCHANGED <<message, reports_data>>
    /\ UNCHANGED <<uploaded_file, all_sheets_dict, valid_sheets, j, output_filename,
                   publisher_data, writer, archive, download>>

\* top of the publisher loop: the filename, the buffer and the ExcelWriter
BeginReport ==
    /\ pc = "LoopHead"
    /\ output_filename' =
          OutputFilename(all_publishers[i], uploaded_file.name, report_date)
    /\ writer' = <<>>
    /\ j' = 1
    /\ pc' = IF Len(valid_sheets) = 0 THEN "Storing" ELSE "Filtering"
    /\ UNCHANGED <<uploaded_file, all_sheets_dict, valid_sheets, all_publishers,
                   report_date, i, publisher_data, publisher_files, reports_data,
                   archive, download, message>>

\* publisher_data = original_df[original_df['Publisher'] == publisher]
FilterSheet ==
    /\ pc = "Filtering"
    /\ publisher_data' = FilterPublisher(valid_sheets[j], all_publishers[i])
    /\ pc' = "Writing"
    /\ UNCHANGED <<uploaded_file, all_sheets_dict, valid_sheets, all_publishers,
                   report_date, i, j, output_filename, writer, publisher_files,
                   reports_data, archive, download, message>>

\* the filtered sheet written whether or not it has rows
WriteSheetAlways ==
    /\ pc = "Writing"
    /\ writer' = Append(writer, publisher_data)
    /\ IF j < Len(valid_sheets)
       THEN /\ j' = j + 1
            /\ pc' = "Filtering"
       ELSE /\ pc' = "Storing"
            /\ UNCHANGED j
    /\ UNCHANGED <<uploaded_file, all_sheets_dict, valid_sheets, all_publishers,
                   report_date, i, output_filename, publisher_data,
                   publisher_files, reports_data, archive, download, message>>

\* if not publisher_data.empty: publisher_data.to_excel(writer, sheet_name, ...)
WriteSheet ==
    /\ pc = "Writing"
    /\ writer' = IF publisher_data.rows # <<>>
                 THEN Append(writer, publisher_data)
                 ELSE writer
    /\ IF j < Len(valid_sheets)
       THEN /\ j' = j + 1
            /\ pc' = "Filtering"
       ELSE /\ pc' = "Storing"
            /\ UNCHANGED j
    /\ UNCHANGED <<uploaded_file, all_sheets_dict, valid_sheets, all_publishers,
                   report_date, i, output_filename, publisher_data,
                   publisher_files, reports_data, archive, download, message>>

\* to_excel raises and the reports stored so far are zipped and offered
WriteSheetErrorPartial ==
    /\ pc = "Writing"
    /\ publisher_data.rows # <<>>
    /\ message' = "exception"
    /\ archive' = publisher_files
    /\ download' = TRUE
    /\ pc' = "Failed"
    /\ UNCHANGED <<uploaded_file, all_sheets_dict, valid_sheets, all_publishers,
                   report_date, i, j, output_filename, publisher_data, writer,
                   publisher_files, reports_data>>

\* to_excel raises: nothing catches it, the script stops with the exception shown
WriteSheetError ==
    /\ pc = "Writing"
    /\ publisher_data.rows # <<>>
    /\ message' = "exception"
    /\ pc' = "Failed"
    /\ UNCHANGED <<uploaded_file, all_sheets_dict, valid_sheets, all_publishers,
                   report_date, i, j, output_filename, publisher_data, writer,
                   publisher_files, reports_data, archive, download>>

\* publisher_files[output_filename] = output.getvalue(); next publisher, or
\* return publisher_files
StoreReport ==
    /\ pc = "Storing"
    /\ publisher_files' = DictSet(publisher_files, output_filename, writer)
    /\ IF i < Len(all_publishers)
       THEN /\ i' = i + 1
            /\ pc' = "LoopHead"
            /\ UNCHANGED reports_data
       ELSE /\ reports_data' = publisher_files'
            /\ pc' = "Zipping"
            /\ UNCHANGED i
    /\ UNCHANGED <<uploaded_file, all_sheets_dict, valid_sheets, all_publishers,
                   report_date, j, output_filename, publisher_data, writer,
                   archive, download, message>>

\* num_files = len(reports_data); if num_files > 0: zip and download button,
\* else: st.error("No reports were generated ...")
BuildArchive ==
    /\ pc = "Zipping"
    /\ IF Len(reports_data) > 0
       THEN /\ archive' = reports_data
            /\ download' = TRUE
            /\ pc' = "Ready"
            /\ UNCHANGED message
       ELSE /\ message' = "no_reports"
            /\ pc' = "Failed"
            /\ UNCHANGED <<archive, download>>
    /\ UNCHANGED <<uploaded_file, all_sheets_dict, valid_sheets, all_publishers,
                   report_date, i, j, output_filename, publisher_data, writer,
                   publisher_files, reports_data>>

Next ==
    \/ Upload
    \/ ReadExcel
    \/ ReadExcelError
    \/ ReviewSheets
    \/ ConsolidatePublishers
    \/ BeginReport
    \/ FilterSheet
    \/ WriteSheet
    \/ WriteSheetError
    \/ StoreReport
    \/ BuildArchive

Spec == Init /\ [][Next]_vars

\* the same script over one-row workbooks of every publisher name up to MaxLen
NameSpec == NameInit /\ [][Next]_vars

----------------------------------------------------------------------------
(* Vocabulary of the properties *)

\* a sheet of the upload that has the identifier column
Qualifies(sheet) == \E k \in 1..Len(sheet.columns) : sheet.columns[k] = "Publisher"

\* the qualifying sheets of the upload, by position
QualifyingSheets ==
    {k \in 1..Len(uploaded_file.sheets) : Qualifies(uploaded_file.sheets[k])}

\* the identifier cell of a row of a qualifying sheet
Cell(sheet, r) == sheet.rows[r][PublisherIndex(sheet)]

\* the raw identifier values of the upload (a blank cell is the value NaN)
IdentifierValues ==
    UNION { {Cell(uploaded_file.sheets[k], r) :
                r \in 1..Len(uploaded_file.sheets[k].rows)} :
            k \in QualifyingSheets }

\* p has a row in the sheet, by the comparison the filter makes
HasRowFor(sheet, p) ==
    \E r \in 1..Len(sheet.rows) :
        /\ Cell(sheet, r) # NaN
        /\ p # NaN
        /\ Cell(sheet, r) = p

\* the rows a report holds under a sheet name
RowsOf(report, sheetName) ==
    IF \E k \in 1..Len(report) : report[k].name = sheetName
    THEN report[CHOOSE k \in 1..Len(report) : report[k].name = sheetName].rows
    ELSE <<>>

Occurrences(row, rows) == Cardinality({k \in 1..Len(rows) : rows[k] = row})

RECURSIVE OccurrencesIn(_, _, _, _)
OccurrencesIn(row, sheetName, entries, n) ==
    IF n = 0 THEN 0
    ELSE Occurrences(row, RowsOf(entries[n].content, sheetName))
            + OccurrencesIn(row, sheetName, entries, n - 1)

\* every row of a report carries the identifier value p
AllRowsOf(report, p) ==
    \A k \in 1..Len(report) :
        \A r \in 1..Len(report[k].rows) : Cell(report[k], r) = p

\* the filename the run gives to identifier value p
FilenameOf(p) == OutputFilename(p, uploaded_file.name, report_date)

\* the report of identifier value p over the given sheets: the non-empty
\* filtered sheets, in sheet order
ReportOf(sheets, p) ==
    SelectSeq([k \in 1..Len(sheets) |-> FilterPublisher(sheets[k], p)],
              LAMBDA d : d.rows # <<>>)

InLoop == pc \in {"Filtering", "Writing", "Storing"}

----------------------------------------------------------------------------
(* C1 *)

\* C1 (as claimed): in a run that ends Ready, every row of every qualifying
\* sheet is in exactly one report of the archive, and the rows of the sheet over
\* all reports are the sheet's rows, each as often as in the sheet.
C1_Completeness ==
    pc = "Ready" =>
        \A k \in QualifyingSheets :
            LET sheet == uploaded_file.sheets[k]
            IN  \A r \in 1..Len(sheet.rows) :
                    /\ OccurrencesIn(sheet.rows[r], sheet.name, archive, Len(archive))
                          = Occurrences(sheet.rows[r], sheet.rows)
                    /\ Cardinality({e \in 1..Len(archive) :
                          Occurrences(sheet.rows[r],
                                      RowsOf(archive[e].content, sheet.name)) > 0}) = 1

----------------------------------------------------------------------------
(* C2 *)

\* C2: the report being written for publisher all_publishers[i] holds only rows
\* whose Publisher cell is exactly that publisher, and every stored or archived
\* report holds the rows of one publisher only, the one it is named after.
C2_NoLeakage ==
    /\ InLoop => AllRowsOf(writer, all_publishers[i])
    /\ pc = "Writing" => AllRowsOf(<<publisher_data>>, all_publishers[i])
    /\ \A e \in 1..Len(publisher_files) :
          \E k \in 1..Len(all_publishers) :
              /\ publisher_files[e].name = FilenameOf(all_publishers[k])
              /\ AllRowsOf(publisher_files[e].content, all_publishers[k])
    /\ \A e \in 1..Len(archive) :
          \E k \in 1..Len(all_publishers) :
              /\ archive[e].name = FilenameOf(all_publishers[k])
              /\ AllRowsOf(archive[e].content, all_publishers[k])

\* a finished run with the reports of two publishers that share a sheet
C2_Witness ==
    /\ pc = "Ready"
    /\ \E e1, e2 \in 1..Len(archive) :
          /\ e1 # e2
          /\ archive[e1].content # <<>>
          /\ archive[e2].content # <<>>
          /\ archive[e1].content[1].name = archive[e2].content[1].name

----------------------------------------------------------------------------
(* C3 *)

\* C3 (as claimed): in a run that ends Ready the archive has as many entries as
\* there are distinct identifier values with at least one matching row, and no
\* entry is an empty report.
C3_ArchiveCount ==
    pc = "Ready" =>
        /\ Len(archive) =
              Cardinality({p \in IdentifierValues :
                  \E k \in QualifyingSheets : HasRowFor(uploaded_file.sheets[k], p)})
        /\ \A e \in 1..Len(archive) : archive[e].content # <<>>

----------------------------------------------------------------------------
(* C4 *)

\* the upload without its non-qualifying sheets
QualifyingOnly == SelectSeq(uploaded_file.sheets, Qualifies)

\* a sheet of a report is a qualifying sheet of the upload, rows taken from it
FromQualifying(report) ==
    \A s \in 1..Len(report) :
        \E k \in QualifyingSheets :
            /\ uploaded_file.sheets[k].name = report[s].name
            /\ \A r \in 1..Len(report[s].rows) :
                  Occurrences(report[s].rows[r], uploaded_file.sheets[k].rows) > 0

\* the files of the first n publishers over the given sheets
RECURSIVE FilesOf(_, _, _)
FilesOf(sheets, publishers, n) ==
    IF n = 0 THEN <<>>
    ELSE DictSet(FilesOf(sheets, publishers, n - 1),
                 FilenameOf(publishers[n]), ReportOf(sheets, publishers[n]))

\* C4: the sheets the run works on are exactly the upload's sheets that have a
\* 'Publisher' column; the publishers found are exactly the values of the
\* Publisher cells of those sheets; every sheet of every report, written, stored
\* or archived, is one of those sheets and holds rows of it only; and the
\* publishers and the archive of a finished run are those of the upload with its
\* other sheets removed.
C4_NonQualifyingExclusion ==
    /\ pc \notin {"Idle", "Loading", "Validating"} /\ message # "read_failed"
          => valid_sheets = QualifyingOnly
    /\ pc \notin {"Idle", "Loading", "Validating", "Consolidating"}
          /\ message \notin {"read_failed", "no_publisher_column"}
          => {all_publishers[k] : k \in 1..Len(all_publishers)} = IdentifierValues
    /\ FromQualifying(writer)
    /\ \A e \in 1..Len(publisher_files) : FromQualifying(publisher_files[e].content)
    /\ \A e \in 1..Len(archive) : FromQualifying(archive[e].content)
    /\ pc = "Ready" =>
          LET publishers == unique(ConcatPublishers(QualifyingOnly))
          IN  /\ all_publishers = publishers
              /\ archive = FilesOf(QualifyingOnly, publishers, Len(publishers))

\* a finished run over a workbook with a qualifying sheet and a non-qualifying
\* sheet that holds a name no qualifying sheet holds
C4_Witness ==
    /\ pc = "Ready"
    /\ archive[1].content # <<>>
    /\ \E k \in 1..Len(uploaded_file.sheets) :
          /\ ~Qualifies(uploaded_file.sheets[k])
          /\ \E r \in 1..Len(uploaded_file.sheets[k].rows) :
                uploaded_file.sheets[k].rows[r][1] \notin IdentifierValues

----------------------------------------------------------------------------
(* C5 *)

----------------------------------------------------------------------------
(* C6 *)

\* C6: when no sheet of the upload has a 'Publisher' column, a run that has read
\* the workbook ends Failed at the sheet review with the "no Publisher column"
\* warning: the function returns an empty mapping, no publisher is collected, no
\* report is built, no archive is created and no download is offered.
C6_NoQualifyingSheets ==
    QualifyingSheets = {} /\ pc \notin {"Idle", "Loading", "Validating"}
        => /\ pc = "Failed"
           /\ message \in {"no_publisher_column", "read_failed"}
           /\ reports_data = <<>>
           /\ publisher_files = <<>>
           /\ all_publishers = <<>>
           /\ i = 0
           /\ writer = <<>>
           /\ archive = <<>>
           /\ ~download

\* the run halted on a workbook whose sheets, with rows, all lack the column
C6_Witness ==
    /\ pc = "Failed"
    /\ message = "no_publisher_column"
    /\ Len(uploaded_file.sheets) = 2
    /\ uploaded_file.sheets[1].rows # <<>>

----------------------------------------------------------------------------
(* C7 *)

\* C7 (as claimed): when a sheet qualifies and no Publisher cell holds a value
\* (no rows, or every cell blank), a run that has read the workbook ends in the
\* "no identifier values" failure, with no report and no archive entry.
C7_NoIdentifierValues ==
    /\ pc \in {"Ready", "Failed"}
    /\ message # "read_failed"
    /\ QualifyingSheets # {}
    /\ IdentifierValues \subseteq {NaN}
    => /\ pc = "Failed"
       /\ message = "empty_publishers"
       /\ publisher_files = <<>>
       /\ archive = <<>>
       /\ i = 0

----------------------------------------------------------------------------
(* C8 *)

\* the phase of the run the script's position belongs to: the sheet review and
\* the publisher list are the validation, the publisher loop's head and filter
\* are the partitioning, writing, storing and zipping are the packaging
Phase ==
    CASE pc = "Idle" -> "Idle"
      [] pc = "Loading" -> "Loading"
      [] pc \in {"Validating", "Consolidating"} -> "Validating"
      [] pc \in {"LoopHead", "Filtering"} -> "Partitioning"
      [] pc \in {"Writing", "Storing", "Zipping"} -> "Packaging"
      [] pc = "Ready" -> "Ready"
      [] pc = "Failed" -> "Failed"

ClaimedEdges ==
    {<<"Idle", "Loading">>, <<"Loading", "Validating">>,
     <<"Validating", "Partitioning">>, <<"Partitioning", "Packaging">>,
     <<"Packaging", "Ready">>, <<"Loading", "Failed">>,
     <<"Validating", "Failed">>, <<"Packaging", "Failed">>}

\* how far the run is: every position of the script, and every (publisher,
\* sheet) pair of the loop, has its own place
Position ==
    LET width == 2 * Len(valid_sheets) + 2
        end   == 4 + Len(all_publishers) * width
    IN  CASE pc = "Idle" -> 0
          [] pc = "Loading" -> 1
          [] pc = "Validating" -> 2
          [] pc = "Consolidating" -> 3
          [] pc = "LoopHead" -> 4 + (i - 1) * width
          [] pc = "Filtering" -> 4 + (i - 1) * width + 2 * j - 1
          [] pc = "Writing" -> 4 + (i - 1) * width + 2 * j
          [] pc = "Storing" -> 4 + (i - 1) * width + width - 1
          [] pc = "Zipping" -> end
          [] pc \in {"Ready", "Failed"} -> end + 1

\* an archive exists or the download is offered
Delivered == archive # <<>> \/ download

\* the run is over exactly in Ready and in Failed
EndsInReadyOrFailed == (~ENABLED Next) <=> pc \in {"Ready", "Failed"}

\* C8 (as claimed): the phases follow Idle, Loading, Validating, Partitioning,
\* Packaging in that order and the run ends in Ready or Failed; Failed is
\* entered from Loading, Validating or Packaging only; an archive exists and is
\* offered in Ready only; no step is taken twice.
C8_StateMachine ==
    /\ [](Delivered => pc = "Ready")
    /\ []EndsInReadyOrFailed
    /\ [][/\ Phase' = Phase \/ <<Phase, Phase'>> \in ClaimedEdges
          /\ Position' > Position]_vars

\* C8 (amended): as claimed, except that the run returns from Packaging to
\* Partitioning for the next sheet and the next publisher.
C8_StateMachineInterleaved ==
    /\ [](Delivered => pc = "Ready")
    /\ []EndsInReadyOrFailed
    /\ [][/\ \/ Phase' = Phase
             \/ <<Phase, Phase'>> \in ClaimedEdges
             \/ <<Phase, Phase'>> = <<"Packaging", "Partitioning">>
          /\ Position' > Position]_vars

\* a run that failed while writing a report, after it had stored another
C8_Witness ==
    /\ pc = "Failed"
    /\ message = "exception"
    /\ publisher_files # <<>>
    /\ publisher_files[1].content # <<>>

----------------------------------------------------------------------------
(* C9 *)

\* the characters the claim keeps
Allowed(c) == c \in AlnumChars \/ c \in {" ", "_", "-"}

\* the stringified identifier without the characters that are not allowed
Kept(p) == SelectSeq(str(p), Allowed)

\* what follows the cleaned name in the filename
NameSuffix ==
    <<"_">> \o ReplaceXlsx(uploaded_file.name) \o <<"_">> \o report_date
        \o <<".xlsx">>

\* C9 (as claimed): the filename starts with the stringified identifier with
\* every character that is not allowed deleted and every allowed character,
\* every space included, kept in order.
C9_Sanitization ==
    InLoop => output_filename = Kept(all_publishers[i]) \o NameSuffix

\* C9 (amended): the filename starts with the stringified identifier with every
\* character that is not allowed deleted, the allowed characters kept in order,
\* and the spaces then left at the end removed.
C9_SanitizationRstrip ==
    InLoop =>
        LET kept == Kept(all_publishers[i])
        IN  \E n \in 0..Len(kept) :
                /\ output_filename = SubSeq(kept, 1, n) \o NameSuffix
                /\ n > 0 => kept[n] # " "
                /\ \A k \in (n + 1)..Len(kept) : kept[k] = " "

\* a name with a leading space, a character that is dropped and a space left at
\* the end, cleaned to the leading space and the letter
C9_Witness ==
    /\ InLoop
    /\ all_publishers[i] = <<" ", "A", " ", "!">>
    /\ output_filename = <<" ", "A">> \o NameSuffix

----------------------------------------------------------------------------
(* C10 *)

\* the last publisher, in the order of all_publishers, with the filename of p
LastWith(name) ==
    CHOOSE k \in 1..Len(all_publishers) :
        /\ FilenameOf(all_publishers[k]) = name
        /\ \A m \in 1..Len(all_publishers) :
              FilenameOf(all_publishers[m]) = name => m <= k

\* C10: two publishers with one filename raise no error; in a run that ends Ready
\* the archive has exactly one entry under the filename of every publisher, its
\* content is the report of the last publisher with that filename, and no row of
\* an earlier publisher with that filename is in any entry.
C10_LastWins ==
    /\ message # "no_reports"
    /\ pc = "Zipping" => reports_data # <<>>
    /\ pc = "Ready" =>
          \A k \in 1..Len(all_publishers) :
              LET name == FilenameOf(all_publishers[k])
                  last == LastWith(name)
              IN  /\ Cardinality({e \in 1..Len(archive) : archive[e].name = name}) = 1
                  /\ \A e \in 1..Len(archive) :
                        /\ archive[e].name = name =>
                              archive[e].content
                                  = ReportOf(QualifyingOnly, all_publishers[last])
                        /\ k # last =>
                              \A s \in 1..Len(archive[e].content) :
                                  \A r \in 1..Len(archive[e].content[s].rows) :
                                      Cell(archive[e].content[s], r) # all_publishers[k]

\* a finished run with two publishers of one filename that both have rows
C10_Witness ==
    /\ pc = "Ready"
    /\ \E k1, k2 \in 1..Len(all_publishers) :
          /\ k1 < k2
          /\ FilenameOf(all_publishers[k1]) = FilenameOf(all_publishers[k2])
          /\ \E s \in QualifyingSheets :
                HasRowFor(uploaded_file.sheets[s], all_publishers[k1])
          /\ \E s \in QualifyingSheets :
                HasRowFor(uploaded_file.sheets[s], all_publishers[k2])

====
